---- MODULE Spec2Model ----
(***************************************************************************)
(* Batch orchestration of dnn_factor_production: the parallel batch driver *)
(* batch_process_stocks_parallel, the serial driver batch_process_stocks,  *)
(* the retry driver retry_failed_stocks (batch_processor.py), the per-unit *)
(* function generate_factors_for_stock (factor_calculator.py), the output  *)
(* directory and the failure ledger.                                       *)
(*                                                                         *)
(* Python values are modelled as tagged records, strings as sequences of   *)
(* tokens (a token is a character or a fixed piece of text), so that       *)
(* str.replace and concatenation are computed, not assumed.                *)
(***************************************************************************)
EXTENDS Integers, Sequences, FiniteSets, TLC

\* ------------------------------------------------------------------ bounds
MaxUnits == 2
MaxRuns == 2

\* default of the max_workers parameter
DefaultMaxWorkers == 4

\* ------------------------------------------------------------ value domain
Codes == {"A", "B"}
StockNames == {"n"}
Units == [converted_code : Codes, stock_name : StockNames]

NL == "\n"
\* str(e) of the exceptions the provider calls raise: empty, and multi-line
ExcMessages == {<< >>, <<"x", NL, "y">>}

NoneVal == [tag |-> "None"]
DataFrameVal == [tag |-> "DataFrame"]
StrVal(s) == [tag |-> "str", s |-> s]
TupleVal(a, b) == [tag |-> "tuple", fst |-> a, snd |-> b]

\* what the provider does for one unit: every call returns ("ok"),
\* instruments() returns None ("no_instrument"), or some call or
\* transformation inside the try block raises ("raise", with str(e) = msg)
\* io is what the file write of the unit's artifact would do; it is consulted
\* only when the compute succeeded
Behaviours ==
    {[kind |-> "ok", msg |-> << >>, io |-> w] : w \in {"ok", "fail_partial"}}
    \cup {[kind |-> "no_instrument", msg |-> << >>, io |-> "ok"]}
    \cup {[kind |-> "raise", msg |-> m, io |-> "ok"] : m \in ExcMessages}

\* line 159: print_factor_summary_once is called when every provider call
\* and transformation before it went through
ReachesSummary(beh) == beh.kind = "ok"

\* a unit the provider has not answered yet
Unset == [kind |-> "unset", msg |-> << >>, io |-> "ok"]

\* mutant: the error text is returned as it is
ReplaceNewline_Keep(s) == s

\* str.replace("\n", " ")
ReplaceNewline(s) == [i \in 1..Len(s) |-> IF s[i] = NL THEN " " ELSE s[i]]

\* f"{type(e).__name__} - {str(e)}".replace("\n", " ")
ExceptErrorMsg(msg) == ReplaceNewline(<<"ValueError", " - ">> \o msg)

NoInstrumentMsg == <<"instruments() found no basic information">>

\* mutant: the except block re-raises, the exception leaves the function
generate_factors_for_stock_Propagate(beh) ==
    CASE beh.kind = "no_instrument" -> TupleVal(NoneVal, StrVal(NoInstrumentMsg))
      [] beh.kind = "raise" -> [tag |-> "raised", msg |-> beh.msg]
      [] OTHER -> TupleVal(DataFrameVal, NoneVal)

\* mutant: the function returns the bare DataFrame or None, the value the
\* drivers test with `is not None`
generate_factors_for_stock_BareValue(beh) ==
    IF beh.kind = "ok" THEN DataFrameVal ELSE NoneVal

\* generate_factors_for_stock: a 2-tuple in every case; an exception raised
\* inside the try block is caught and turned into (None, error_msg)
generate_factors_for_stock(beh) ==
    CASE beh.kind = "no_instrument" -> TupleVal(NoneVal, StrVal(NoInstrumentMsg))
      [] beh.kind = "raise" -> TupleVal(NoneVal, StrVal(ExceptErrorMsg(beh.msg)))
      [] OTHER -> TupleVal(DataFrameVal, NoneVal)

\* attribute lookup factors_df.to_csv: only a DataFrame has the method
HasToCsv(v) == v.tag = "DataFrame"

AttributeErrorMsg == <<"'tuple' object has no attribute 'to_csv'">>
GenericFailure == <<"generate factors failed">>
IOErrorMsg == <<"OSError">>

\* The statements both loops run on the value v of one unit, up to the first
\* exception: `if factors_df is not None: factors_df.to_csv(...)`, else the
\* generic failure. v tagged "raised" is future.result() re-raising what the
\* worker raised. io is the outcome of the file write.
\*   kind "success": the artifact is written
\*   kind "none"   : the value was None
\*   kind "raise"  : an exception e was raised, error is str(e)
\*   written: "complete", "partial" or "none" (what to_csv left on disk)
UnitSteps(v, io) ==
    CASE v.tag = "raised" ->
           [kind |-> "raise", error |-> v.msg, written |-> "none"]
      [] v.tag = "None" ->
           [kind |-> "none", error |-> GenericFailure, written |-> "none"]
      [] ~HasToCsv(v) ->
           [kind |-> "raise", error |-> AttributeErrorMsg, written |-> "none"]
      [] io = "ok" ->
           [kind |-> "success", error |-> << >>, written |-> "complete"]
      [] OTHER ->
           [kind |-> "raise", error |-> IOErrorMsg, written |-> "partial"]

\* mutant: `except Exception: pass`, a raised exception is swallowed
CollectOutcome_SwallowExcept(v, io) ==
    LET o == UnitSteps(v, io) IN
    IF o.kind = "success" THEN o
    ELSE IF o.kind = "raise"
         THEN [kind |-> "skipped", error |-> o.error, written |-> o.written]
         ELSE [kind |-> "failed", error |-> o.error, written |-> o.written]

\* The try/except of the collecting loop of the parallel batch: `except
\* Exception as e` turns a raised exception into a failure with str(e)
\*   kind "success": success_count += 1
\*   kind "failed" : failed_count += 1 and one record appended, with error
CollectOutcome(v, io) ==
    LET o == UnitSteps(v, io) IN
    IF o.kind = "success" THEN o
    ELSE [kind |-> "failed", error |-> o.error, written |-> o.written]

\* The loop body of the serial batch: no try/except, an exception leaves
\* the driver (kind "raise")
SerialOutcome(v, io) ==
    LET o == UnitSteps(v, io) IN
    IF o.kind = "none"
    THEN [kind |-> "failed", error |-> o.error, written |-> o.written]
    ELSE o

\* str(e) of what print raises when the console does not take the line
PrintErrorMsg == <<"print failed">>
\* what the progress lines of one iteration do
PrintOutcomes == {"ok", "raise"}

\* One iteration of the collecting loop with its progress line, lines
\* 92-129. success is the increment of success_count, errors are the error
\* texts of the records appended (failed_count is incremented with each),
\* raised tells that an exception left the iteration.
\*   success branch: to_csv, success_count += 1, print (line 102); when the
\*     print raises, the except branch counts and records a failure as well
\*   else branch: failed_count += 1, append, print (line 114); when the
\*     print raises, the except branch counts and records once more
\*   except branch: failed_count += 1, append, print (line 127); what this
\*     print raises is inside no try and leaves the loop
CollectEffects(v, io, pr) ==
    LET s == UnitSteps(v, io)
        o == CollectOutcome(v, io) IN
    CASE o.kind = "success" ->
           [success |-> 1,
            errors |-> IF pr = "raise" THEN <<PrintErrorMsg>> ELSE << >>,
            written |-> o.written, raised |-> pr = "raise"]
      [] o.kind = "failed" /\ s.kind = "none" ->
           [success |-> 0,
            errors |-> IF pr = "raise" THEN <<o.error, PrintErrorMsg>>
                       ELSE <<o.error>>,
            written |-> o.written, raised |-> pr = "raise"]
      [] o.kind = "failed" ->
           [success |-> 0, errors |-> <<o.error>>,
            written |-> o.written, raised |-> pr = "raise"]
      [] OTHER ->
           [success |-> 0, errors |-> << >>,
            written |-> o.written, raised |-> FALSE]

FailureRecord(unit, error) ==
    [stock_code |-> unit.converted_code, stock_name |-> unit.stock_name,
     error |-> error]

Artifact(unit, state) ==
    [stock_code |-> unit.converted_code, stock_name |-> unit.stock_name,
     state |-> state]

\* to_csv on output_path: the file of that name is replaced
WriteArtifact(dir, unit, written) ==
    IF written = "none" THEN dir
    ELSE {a \in dir : ~(a.stock_code = unit.converted_code
                        /\ a.stock_name = unit.stock_name)}
         \cup {Artifact(unit, written)}

\* ---------------------------------------------------------------- ledger
RECURSIVE DedupFrom(_, _)
DedupFrom(s, i) ==
    IF i > Len(s) THEN << >>
    ELSE IF \E j \in (i + 1)..Len(s) : s[j].stock_code = s[i].stock_code
         THEN DedupFrom(s, i + 1)
         ELSE <<s[i]>> \o DedupFrom(s, i + 1)

\* one ledger line: stock_code|stock_name|error|timestamp (timestamp left out)
LedgerLine(r) ==
    [stock_code |-> r.stock_code, stock_name |-> r.stock_name,
     error |-> ReplaceNewline(r.error)]

\* mutant: every record of the failed list is written, none dropped
save_failed_stocks_NoDedup(old, failed) ==
    [i \in 1..Len(failed) |-> LedgerLine(failed[i])]

\* mutant: the file is opened in append mode
save_failed_stocks_Append(old, failed) ==
    old \o [i \in 1..Len(failed) |-> LedgerLine(failed[i])]

\* save_failed_stocks(failed, tag): snapshot write of the whole ledger, one
\* line per identifier, the last record of an identifier wins
save_failed_stocks(old, failed) ==
    LET d == DedupFrom(failed, 1) IN [i \in 1..Len(d) |-> LedgerLine(d[i])]

\* ------------------------------------------------- listing the work units
\* A file name is a sequence of text pieces. The pieces the pattern of
\* parse_stock_info_from_filename tells apart:
Digits6 == {"000001", "600000"}            \* [0-9]{6}
Upper2 == {"SZ", "SH", "BJ", "HK"}         \* [A-Z]{2}
Dates8 == {"20250718", "20250719"}         \* \d{8}
\* the fixed label between the name and the date in the pattern
FixedLabel == "daily-adjusted-and-indicators"

MaxFiles == 2

\* limit=None, and limit=0, which `if limit:` treats alike
NoLimit == 0
Limits == {NoLimit, 1}

ConventionName(d, x, date) ==
    <<d, ".", x, "-", "n", "-", FixedLabel, "-", date, ".csv">>

\* names the input directory may hold: names of the convention (two of them
\* of one stock, on different dates), a name with an exchange the code does
\* not convert, another csv file, a name of the convention with another
\* label or another extension, and a copy of a name of the convention with
\* text after the extension
FileNames ==
    { ConventionName("000001", "SZ", "20250718"),
      ConventionName("000001", "SZ", "20250719"),
      ConventionName("600000", "SH", "20250718"),
      ConventionName("000001", "HK", "20250718"),
      <<"notes", ".csv">>,
      <<"600000", ".", "SH", "-", "n", "-", "other-label", "-", "20250718",
        ".csv">>,
      <<"600000", ".", "SH", "-", "n", "-", FixedLabel, "-", "20250718",
        ".txt">>,
      ConventionName("600000", "SH", "20250719") \o <<".bak", ".csv">> }

\* os.listdir: the names of the directory, each once, in arbitrary order
Listings ==
    {l \in UNION {[1..n -> FileNames] : n \in 0..MaxFiles} :
        \A i, j \in 1..Len(l) : i # j => l[i] # l[j]}

\* filename.endswith('.csv')
EndsWithCsv(f) == Len(f) > 0 /\ f[Len(f)] = ".csv"

\* re.match(pattern, filename): the pattern has to match from the first
\* character on, and may stop before the end of the name
PatternMatches(f) ==
    /\ Len(f) >= 10
    /\ f[1] \in Digits6 /\ f[2] = "." /\ f[3] \in Upper2
    /\ f[4] = "-"
    /\ f[6] = "-" /\ f[7] = FixedLabel /\ f[8] = "-"
    /\ f[9] \in Dates8 /\ f[10] = ".csv"

\* (group 1, group 2, group 3) or (None, None, None); a code is kept as
\* <<six digits, exchange>>
parse_stock_info_from_filename(f) ==
    IF PatternMatches(f)
    THEN [original_code |-> StrVal(<<f[1], f[3]>>),
          stock_name |-> StrVal(f[5]),
          date |-> StrVal(f[9])]
    ELSE [original_code |-> NoneVal, stock_name |-> NoneVal,
          date |-> NoneVal]

\* SZ -> XSHE, SH -> XSHG, BJ -> BJSE, anything else None
convert_stock_code(original_code) ==
    LET d == original_code.s[1]
        x == original_code.s[2] IN
    CASE x = "SZ" -> StrVal(<<d, "XSHE">>)
      [] x = "SH" -> StrVal(<<d, "XSHG">>)
      [] x = "BJ" -> StrVal(<<d, "BJSE">>)
      [] OTHER -> NoneVal

\* the test of the loop body for one file name
ListedName(f) ==
    /\ EndsWithCsv(f)
    /\ LET info == parse_stock_info_from_filename(f) IN
        /\ info.original_code.tag = "str"
        /\ info.stock_name.tag = "str"
        /\ convert_stock_code(info.original_code).tag = "str"

ListedUnit(f) ==
    LET info == parse_stock_info_from_filename(f) IN
    [original_code |-> info.original_code.s,
     converted_code |-> convert_stock_code(info.original_code).s,
     stock_name |-> info.stock_name.s,
     date |-> info.date.s]

\* stock_list[:limit]
Truncate(list, n) == SubSeq(list, 1, IF n < Len(list) THEN n ELSE Len(list))

get_stock_list_from_csv_folder(files, lim) ==
    LET kept == SelectSeq(files, ListedName)
        all == [i \in 1..Len(kept) |-> ListedUnit(kept[i])] IN
    IF lim # NoLimit THEN Truncate(all, lim) ELSE all

\* ---------------------------------------------------- reading the ledger
\* A line of the ledger file is a sequence of text pieces; "|" is the
\* separator, " " is white space and Undecodable is a byte sequence that is
\* not UTF-8.
Undecodable == "<not-utf8>"

MaxLines == 2

\* lines the file may hold: two lines as save_failed_stocks writes them, a
\* line with two fields only, a line without a separator, a blank line, a
\* line whose reason holds the separator, a line that cannot be decoded
RawLines ==
    { <<"A", "|", "n", "|", "r", "|", "t">>,
      <<"B", "|", "n", "|", "r", "|", "t">>,
      <<"A", "|", "n">>,
      <<"garbage">>,
      <<" ">>,
      <<"B", "|", "n", "|", "r", "|", "r", "|", "t">>,
      <<"A", "|", "n", "|", Undecodable, "|", "t">> }

NoFile == [exists |-> FALSE, lines |-> << >>]
LedgerFiles ==
    {NoFile} \cup
    {[exists |-> TRUE, lines |-> l] :
        l \in UNION {[1..n -> RawLines] : n \in 0..MaxLines}}

\* line.strip()
RECURSIVE Strip(_)
Strip(line) ==
    IF line = << >> THEN << >>
    ELSE IF Head(line) = " " THEN Strip(Tail(line))
    ELSE IF line[Len(line)] = " " THEN Strip(SubSeq(line, 1, Len(line) - 1))
    ELSE line

\* line.split("|"): the fields between the separators
RECURSIVE Split(_, _)
Split(line, field) ==
    IF line = << >> THEN <<field>>
    ELSE IF Head(line) = "|" THEN <<field>> \o Split(Tail(line), << >>)
    ELSE Split(Tail(line), Append(field, Head(line)))

\* open(..., encoding="utf-8") raises UnicodeDecodeError while reading
\* such a file
Decodes(lines) ==
    \A i \in 1..Len(lines) : \A k \in 1..Len(lines[i]) :
        lines[i][k] # Undecodable

\* the test of the loop body for one line: not blank, at least two fields
ParsedLine(line) ==
    /\ Strip(line) # << >>
    /\ Len(Split(Strip(line), << >>)) >= 2

\* mutant: identifier and name are taken as the fourth and third field from
\* the end of the line
RetryUnit_FromEnd(line) ==
    LET parts == Split(Strip(line), << >>)
        n == Len(parts) IN
    IF n >= 4
    THEN [converted_code |-> parts[n - 3], stock_name |-> parts[n - 2]]
    ELSE [converted_code |-> parts[1], stock_name |-> parts[2]]

RetryUnit(line) ==
    LET parts == Split(Strip(line), << >>) IN
    [converted_code |-> parts[1], stock_name |-> parts[2]]

\* no file: []; an exception while reading: caught, a warning, []; else the
\* units of the lines that parse
get_failed_stocks(file) ==
    IF ~file.exists THEN << >>
    ELSE IF ~Decodes(file.lines) THEN << >>
    ELSE LET kept == SelectSeq(file.lines, ParsedLine) IN
         [i \in 1..Len(kept) |-> RetryUnit(kept[i])]

\* ----------------------------------------------------------------- state
VARIABLES
    pc,             \* position of the main thread
    mode,           \* driver of the current run
    runs,           \* drivers started so far
    stock_list,     \* units of the current run, in submission order
    behaviour,      \* per position: what the provider does for that unit
    max_workers,
    fut,            \* per position: "pending", "running", "finished"
    result,         \* per position: value or exception held by the future
    collected,      \* positions the collecting loop has consumed
    success_count,
    failed_count,
    failed_stocks,
    outdir,         \* artifacts in the output directory
    ledger,         \* lines of today's failure ledger (<< >>: no file)
    ledger_at_start,\* the ledger when the current run started
    ledger_writes,  \* calls of save_failed_stocks in the current run
    input_dir,      \* file names of the input directory, as os.listdir
                    \* returns them
    limit,          \* the limit argument of the listing
    ledger_file,    \* the ledger file as text, as get_failed_stocks reads it
    sleeps,         \* calls of time.sleep(1) by the serial retry so far
    summary_printed,\* the module global _factor_summary_printed
    summary_tables  \* factor summary tables printed so far

vars == <<pc, mode, runs, stock_list, behaviour, max_workers, fut, result,
          collected, success_count, failed_count, failed_stocks, outdir,
          ledger, ledger_at_start, ledger_writes, input_dir, limit,
          ledger_file, sleeps, summary_printed, summary_tables>>

\* what the drivers are given from outside and never write
fs_inputs == <<input_dir, limit, ledger_file>>

\* what only the steps inside generate_factors_for_stock and the serial retry
\* loop change: the tables printed, and the pauses
aside == <<sleeps, summary_tables>>

Positions == 1..Len(stock_list)

StockLists == UNION {[1..n -> Units] : n \in 0..MaxUnits}

Ended == pc \in {"idle", "done", "raised", "returned"}

Init ==
    /\ pc = "idle"
    /\ mode = "none"
    /\ runs = 0
    /\ stock_list = << >>
    /\ behaviour = << >>
    /\ max_workers = 1
    /\ fut = << >>
    /\ result = << >>
    /\ collected = {}
    /\ success_count = 0
    /\ failed_count = 0
    /\ failed_stocks = << >>
    /\ outdir \in SUBSET {Artifact(u, "complete") : u \in Units}
    /\ ledger = << >>
    /\ ledger_at_start = << >>
    /\ ledger_writes = 0
    /\ input_dir = << >>
    /\ limit = NoLimit
    /\ ledger_file = NoFile
    /\ sleeps = 0
    /\ summary_printed = FALSE
    /\ summary_tables = 0

\* mutant: the old files are not deleted
DeleteOldCsv_Skip(dir) == dir

\* `for old_file in output_folder.glob("*.csv"): old_file.unlink()`
DeleteOldCsv(dir) == {}

\* mutant: the old files are deleted before the list is tested for emptiness
StartParallel_ResetFirst(list, mw) ==
    /\ Ended
    /\ runs < MaxRuns
    /\ runs' = runs + 1
    /\ mode' = "parallel"
    /\ stock_list' = list
    /\ behaviour' = [p \in 1..Len(list) |-> Unset]
    /\ max_workers' = mw
    /\ ledger_at_start' = ledger
    /\ collected' = {}
    /\ success_count' = 0
    /\ failed_count' = 0
    /\ failed_stocks' = << >>
    /\ result' = [p \in 1..Len(list) |-> NoneVal]
    /\ fut' = [p \in 1..Len(list) |-> "pending"]
    /\ IF Len(list) = 0
       THEN pc' = "returned" /\ outdir' = DeleteOldCsv(outdir)
       ELSE pc' = "collecting" /\ outdir' = DeleteOldCsv(outdir)
    /\ UNCHANGED ledger
    /\ ledger_writes' = 0
    /\ UNCHANGED <<fs_inputs, aside, summary_printed>>

\* --------------------------------------------------- parallel batch driver
\* lines 55-84: list the units, return when there are none, otherwise make
\* the output directory, delete every old *.csv, zero the counters and
\* submit one future per unit
StartParallel(list, mw) ==
    /\ Ended
    /\ runs < MaxRuns
    /\ runs' = runs + 1
    /\ mode' = "parallel"
    /\ stock_list' = list
    /\ behaviour' = [p \in 1..Len(list) |-> Unset]
    /\ max_workers' = mw
    /\ ledger_at_start' = ledger
    /\ collected' = {}
    /\ success_count' = 0
    /\ failed_count' = 0
    /\ failed_stocks' = << >>
    /\ result' = [p \in 1..Len(list) |-> NoneVal]
    /\ fut' = [p \in 1..Len(list) |-> "pending"]
    /\ IF Len(list) = 0
       THEN pc' = "returned" /\ outdir' = outdir
       ELSE pc' = "collecting" /\ outdir' = DeleteOldCsv(outdir)
    /\ UNCHANGED ledger
    /\ ledger_writes' = 0
    /\ UNCHANGED <<fs_inputs, aside, summary_printed>>

\* ThreadPoolExecutor: work items are taken in submission order by at most
\* max_workers threads
CanStart(p) ==
    /\ fut[p] = "pending"
    /\ \A q \in Positions : q < p => fut[q] # "pending"
    /\ Cardinality({q \in Positions : fut[q] = "running"}) < max_workers

WorkerStart(p) ==
    /\ pc = "collecting"
    /\ CanStart(p)
    /\ fut' = [fut EXCEPT ![p] = "running"]
    /\ UNCHANGED <<pc, mode, runs, stock_list, behaviour, max_workers, result,
                   collected, success_count, failed_count, failed_stocks,
                   outdir, ledger, ledger_at_start>>
    /\ UNCHANGED <<ledger_writes, fs_inputs,
                   aside, summary_printed>>

\* mutant: the worker counts its own failure when it returns
WorkerFinish_Counts(p, beh) ==
    /\ pc = "collecting"
    /\ fut[p] = "running"
    /\ fut' = [fut EXCEPT ![p] = "finished"]
    /\ behaviour' = [behaviour EXCEPT ![p] = beh]
    /\ result' = [result EXCEPT ![p] = generate_factors_for_stock(beh)]
    /\ failed_count' = failed_count + 1
    /\ UNCHANGED <<pc, mode, runs, stock_list, max_workers,
                   collected, success_count, failed_stocks,
                   outdir, ledger, ledger_at_start>>
    /\ summary_printed' = (summary_printed \/ ReachesSummary(beh))
    /\ summary_tables' = IF ReachesSummary(beh) /\ ~summary_printed
                         THEN summary_tables + 1 ELSE summary_tables
    /\ UNCHANGED <<ledger_writes, fs_inputs, sleeps>>

\* mutant: the worker writes the artifact of its unit before it returns
WorkerFinish_Writes(p, beh) ==
    /\ pc = "collecting"
    /\ fut[p] = "running"
    /\ fut' = [fut EXCEPT ![p] = "finished"]
    /\ behaviour' = [behaviour EXCEPT ![p] = beh]
    /\ result' = [result EXCEPT ![p] = generate_factors_for_stock(beh)]
    /\ outdir' = IF beh.kind = "ok"
                 THEN WriteArtifact(outdir, stock_list[p], "complete")
                 ELSE outdir
    /\ UNCHANGED <<pc, mode, runs, stock_list, max_workers,
                   collected, success_count, failed_count, failed_stocks,
                   ledger, ledger_at_start>>
    /\ summary_printed' = (summary_printed \/ ReachesSummary(beh))
    /\ summary_tables' = IF ReachesSummary(beh) /\ ~summary_printed
                         THEN summary_tables + 1 ELSE summary_tables
    /\ UNCHANGED <<ledger_writes, fs_inputs, sleeps>>

\* the worker returns from generate_factors_for_stock, the provider having
\* behaved as beh for this unit
WorkerFinish(p, beh) ==
    /\ pc = "collecting"
    /\ fut[p] = "running"
    /\ fut' = [fut EXCEPT ![p] = "finished"]
    /\ behaviour' = [behaviour EXCEPT ![p] = beh]
    /\ result' = [result EXCEPT ![p] = generate_factors_for_stock(beh)]
    /\ UNCHANGED <<pc, mode, runs, stock_list, max_workers,
                   collected, success_count, failed_count, failed_stocks,
                   outdir, ledger, ledger_at_start>>
    /\ summary_printed' = (summary_printed \/ ReachesSummary(beh))
    /\ summary_tables' = IF ReachesSummary(beh) /\ ~summary_printed
                         THEN summary_tables + 1 ELSE summary_tables
    /\ UNCHANGED <<ledger_writes, fs_inputs, sleeps>>

\* mutant: a finished future is yielded again
Collectable_Repeat(p) == fut[p] = "finished"

\* as_completed yields a future once it is finished, each future once
Collectable(p) == fut[p] = "finished" /\ p \notin collected

\* lines 87-129: one iteration of the collecting loop, in the main thread;
\* an exception that leaves the iteration leaves the driver
Collect(p, pr) ==
    /\ pc = "collecting"
    /\ Collectable(p)
    /\ LET o == CollectEffects(result[p], behaviour[p].io, pr) IN
        /\ outdir' = WriteArtifact(outdir, stock_list[p], o.written)
        /\ success_count' = success_count + o.success
        /\ failed_count' = failed_count + Len(o.errors)
        /\ failed_stocks' =
             failed_stocks \o
             [k \in 1..Len(o.errors) |->
                 FailureRecord(stock_list[p], o.errors[k])]
        /\ pc' = IF o.raised THEN "raised" ELSE pc
    /\ collected' = collected \cup {p}
    /\ UNCHANGED <<mode, runs, stock_list, behaviour, max_workers, fut,
                   result, ledger, ledger_at_start>>
    /\ UNCHANGED <<ledger_writes, fs_inputs,
                   aside, summary_printed>>

\* mutant: the driver does not wait for the futures still in flight
FinishParallel_NoBarrier(pr) ==
    /\ pc = "collecting"
    /\ collected # {}
    /\ pc' = IF pr = "raise" THEN "raised" ELSE "done"
    /\ ledger' = IF pr # "raise" /\ failed_stocks # << >>
                 THEN save_failed_stocks(ledger, failed_stocks)
                 ELSE ledger
    /\ ledger_writes' = IF pr # "raise" /\ failed_stocks # << >>
                        THEN ledger_writes + 1
                        ELSE ledger_writes
    /\ UNCHANGED <<mode, runs, stock_list, behaviour, max_workers, fut, result,
                   collected, success_count, failed_count, failed_stocks,
                   outdir, ledger_at_start>>
    /\ UNCHANGED <<fs_inputs, aside, summary_printed>>

\* lines 131-138: the loop and the with block are left once every future
\* was yielded; the summary is printed (131-134), then the ledger is written
\* when a unit failed (137-138); a summary line that raises leaves the
\* driver before the write
FinishParallel(pr) ==
    /\ pc = "collecting"
    /\ collected = Positions
    /\ pc' = IF pr = "raise" THEN "raised" ELSE "done"
    /\ ledger' = IF pr # "raise" /\ failed_stocks # << >>
                 THEN save_failed_stocks(ledger, failed_stocks)
                 ELSE ledger
    /\ ledger_writes' = IF pr # "raise" /\ failed_stocks # << >>
                        THEN ledger_writes + 1
                        ELSE ledger_writes
    /\ UNCHANGED <<mode, runs, stock_list, behaviour, max_workers, fut, result,
                   collected, success_count, failed_count, failed_stocks,
                   outdir, ledger_at_start>>
    /\ UNCHANGED <<fs_inputs, aside, summary_printed>>

\* ----------------------------------------------------- serial batch driver
\* lines 145-156: make the output directory (old files stay), list the
\* units, zero the counters (error_count is kept in failed_count)
StartSerial(list) ==
    /\ Ended
    /\ runs < MaxRuns
    /\ runs' = runs + 1
    /\ mode' = "serial"
    /\ pc' = "serial_loop"
    /\ stock_list' = list
    /\ behaviour' = [p \in 1..Len(list) |-> Unset]
    /\ max_workers' = 1
    /\ ledger_at_start' = ledger
    /\ collected' = {}
    /\ success_count' = 0
    /\ failed_count' = 0
    /\ failed_stocks' = << >>
    /\ result' = [p \in 1..Len(list) |-> NoneVal]
    /\ fut' = [p \in 1..Len(list) |-> "pending"]
    /\ UNCHANGED <<outdir, ledger>>
    /\ ledger_writes' = 0
    /\ UNCHANGED <<fs_inputs, aside, summary_printed>>

\* lines 158-182: one iteration of the serial loop on the next unit; the
\* per-unit function runs inline and nothing catches what the body raises
SerialStep(p, beh) ==
    /\ pc = "serial_loop"
    /\ p \in Positions
    /\ p = Cardinality(collected) + 1
    /\ LET v == generate_factors_for_stock(beh)
           o == SerialOutcome(v, beh.io) IN
        /\ behaviour' = [behaviour EXCEPT ![p] = beh]
        /\ result' = [result EXCEPT ![p] = v]
        /\ fut' = [fut EXCEPT ![p] = "finished"]
        /\ outdir' = WriteArtifact(outdir, stock_list[p], o.written)
        /\ success_count' = IF o.kind = "success" THEN success_count + 1
                            ELSE success_count
        /\ failed_count' = IF o.kind = "failed" THEN failed_count + 1
                           ELSE failed_count
        /\ failed_stocks' = IF o.kind = "failed"
                            THEN Append(failed_stocks,
                                        FailureRecord(stock_list[p], o.error))
                            ELSE failed_stocks
        /\ pc' = IF o.kind = "raise" THEN "raised" ELSE "serial_loop"
    /\ collected' = collected \cup {p}
    /\ UNCHANGED <<mode, runs, stock_list, max_workers, ledger,
                   ledger_at_start>>
    /\ summary_printed' = (summary_printed \/ ReachesSummary(beh))
    /\ summary_tables' = IF ReachesSummary(beh) /\ ~summary_printed
                         THEN summary_tables + 1 ELSE summary_tables
    /\ UNCHANGED <<ledger_writes, fs_inputs, sleeps>>

\* lines 186-193: summary, and the ledger written when a unit failed
FinishSerial ==
    /\ pc = "serial_loop"
    /\ collected = Positions
    /\ pc' = "done"
    /\ ledger' = IF failed_stocks # << >>
                 THEN save_failed_stocks(ledger, failed_stocks)
                 ELSE ledger
    /\ UNCHANGED <<mode, runs, stock_list, behaviour, max_workers, fut, result,
                   collected, success_count, failed_count, failed_stocks,
                   outdir, ledger_at_start>>
    /\ ledger_writes' = IF failed_stocks # << >> THEN ledger_writes + 1
                        ELSE ledger_writes
    /\ UNCHANGED <<fs_inputs, aside, summary_printed>>

\* ------------------------------------------------------------ retry driver
\* parameters of `def get_failed_stocks():`
GetFailedStocksParams == 0
\* arguments of the call get_failed_stocks(csv_folder_path,
\* output_folder_path, end_date)
RetryCallArgs == 3

\* a call of a function without defaults, *args or **kwargs binds only when
\* the positional arguments are as many as the parameters; otherwise the
\* call raises TypeError before the body runs
CallBinds(nargs, nparams) == nargs = nparams

\* line 202, the first statement of retry_failed_stocks: the call of
\* get_failed_stocks raises TypeError, which leaves the driver; no later
\* statement of the driver runs
RetryStart ==
    /\ Ended
    /\ runs < MaxRuns
    /\ ~CallBinds(RetryCallArgs, GetFailedStocksParams)
    /\ runs' = runs + 1
    /\ mode' = "retry"
    /\ pc' = "raised"
    /\ stock_list' = << >>
    /\ behaviour' = << >>
    /\ max_workers' = 1
    /\ ledger_at_start' = ledger
    /\ collected' = {}
    /\ success_count' = 0
    /\ failed_count' = 0
    /\ failed_stocks' = << >>
    /\ result' = << >>
    /\ fut' = << >>
    /\ UNCHANGED <<outdir, ledger>>
    /\ ledger_writes' = 0
    /\ UNCHANGED <<fs_inputs, aside, summary_printed>>

\* ------------------------------------------------------------ setup errors
\* mutant: the parallel driver lists the input after it has deleted the old
\* files
ListingRaises_AfterReset(drv) ==
    /\ Ended
    /\ runs < MaxRuns
    /\ runs' = runs + 1
    /\ mode' = drv
    /\ pc' = "raised"
    /\ stock_list' = << >>
    /\ behaviour' = << >>
    /\ max_workers' = 1
    /\ ledger_at_start' = ledger
    /\ collected' = {}
    /\ success_count' = 0
    /\ failed_count' = 0
    /\ failed_stocks' = << >>
    /\ result' = << >>
    /\ fut' = << >>
    /\ ledger_writes' = 0
    /\ outdir' = IF drv = "parallel" THEN DeleteOldCsv(outdir) ELSE outdir
    /\ UNCHANGED <<ledger, fs_inputs,
                   aside, summary_printed>>

\* The input path is missing or unreadable: os.listdir raises out of
\* get_stock_list_from_csv_folder and out of the driver. In the parallel
\* driver the listing is the first statement (line 56); in the serial
\* driver output_folder.mkdir(exist_ok=True) comes first (line 147), which
\* leaves the files of the output directory as they are, then the listing
\* (line 150).
ListingRaises(drv) ==
    /\ Ended
    /\ runs < MaxRuns
    /\ runs' = runs + 1
    /\ mode' = drv
    /\ pc' = "raised"
    /\ stock_list' = << >>
    /\ behaviour' = << >>
    /\ max_workers' = 1
    /\ ledger_at_start' = ledger
    /\ collected' = {}
    /\ success_count' = 0
    /\ failed_count' = 0
    /\ failed_stocks' = << >>
    /\ result' = << >>
    /\ fut' = << >>
    /\ ledger_writes' = 0
    /\ UNCHANGED <<outdir, ledger, fs_inputs,
                   aside, summary_printed>>

\* ------------------------------------ the listing and the ledger read alone
\* every variable of the drivers at its value before any run
DriversIdle ==
    /\ mode = "none"
    /\ runs = 0
    /\ stock_list = << >>
    /\ behaviour = << >>
    /\ max_workers = 1
    /\ fut = << >>
    /\ result = << >>
    /\ collected = {}
    /\ success_count = 0
    /\ failed_count = 0
    /\ failed_stocks = << >>
    /\ outdir = {}
    /\ ledger = << >>
    /\ ledger_at_start = << >>
    /\ ledger_writes = 0

InitList ==
    /\ pc = "list_call"
    /\ DriversIdle
    /\ input_dir \in Listings
    /\ limit \in Limits
    /\ ledger_file = NoFile
    /\ sleeps = 0
    /\ summary_printed = FALSE
    /\ summary_tables = 0

\* stock_list = get_stock_list_from_csv_folder(csv_folder_path, limit)
ListFiles ==
    /\ pc = "list_call"
    /\ pc' = "listed"
    /\ stock_list' = get_stock_list_from_csv_folder(input_dir, limit)
    /\ UNCHANGED <<mode, runs, behaviour, max_workers, fut, result, collected,
                   success_count, failed_count, failed_stocks, outdir, ledger,
                   ledger_at_start, ledger_writes, fs_inputs,
                   aside, summary_printed>>

SpecList == InitList /\ [][ListFiles]_vars

InitRead ==
    /\ pc = "read_call"
    /\ DriversIdle
    /\ input_dir = << >>
    /\ limit = NoLimit
    /\ ledger_file \in LedgerFiles
    /\ sleeps = 0
    /\ summary_printed = FALSE
    /\ summary_tables = 0

\* failed_stocks = get_failed_stocks(), kept in stock_list, the list the
\* retry works on
ReadLedger ==
    /\ pc = "read_call"
    /\ pc' = "read_done"
    /\ stock_list' = get_failed_stocks(ledger_file)
    /\ UNCHANGED <<mode, runs, behaviour, max_workers, fut, result, collected,
                   success_count, failed_count, failed_stocks, outdir, ledger,
                   ledger_at_start, ledger_writes, fs_inputs,
                   aside, summary_printed>>

SpecRead == InitRead /\ [][ReadLedger]_vars

\* ------------------------------------------- the print-once guard, by step
\* print_factor_summary_once as the worker threads of one batch run it: each
\* thread is inside generate_factors_for_stock at the call of line 159, and
\* the function's statements are steps of their own, which the threads of
\* the pool interleave. No lock is taken anywhere in the function.

\* threads of one pool that are at the call together
MaxCallers == 4

Callers == 1..max_workers

InitSummary ==
    /\ pc = "collecting"
    /\ mode = "parallel"
    /\ runs = 1
    /\ max_workers \in 1..MaxCallers
    /\ stock_list = [p \in 1..max_workers |-> [converted_code |-> "A", stock_name |-> "n"]]
    /\ behaviour = [p \in 1..max_workers |-> Unset]
    /\ fut = [p \in 1..max_workers |-> "running"]
    /\ result = [p \in 1..max_workers |-> NoneVal]
    /\ collected = {}
    /\ success_count = 0
    /\ failed_count = 0
    /\ failed_stocks = << >>
    /\ outdir = {}
    /\ ledger = << >>
    /\ ledger_at_start = << >>
    /\ ledger_writes = 0
    /\ input_dir = << >>
    /\ limit = NoLimit
    /\ ledger_file = NoFile
    /\ sleeps = 0
    /\ summary_printed = FALSE
    /\ summary_tables = 0

SummaryFrame ==
    UNCHANGED <<pc, mode, runs, stock_list, behaviour, max_workers, result,
                collected, success_count, failed_count, failed_stocks, outdir,
                ledger, ledger_at_start, ledger_writes, fs_inputs, sleeps>>

\* if _factor_summary_printed: return
SummaryCheck(p) ==
    /\ fut[p] = "running"
    /\ fut' = [fut EXCEPT ![p] = IF summary_printed THEN "finished" ELSE "checked"]
    /\ UNCHANGED <<summary_printed, summary_tables>>
    /\ SummaryFrame

\* categories = analyze_factor_summary(df) and the print calls of the table
SummaryPrint(p) ==
    /\ fut[p] = "checked"
    /\ fut' = [fut EXCEPT ![p] = "printed"]
    /\ summary_tables' = summary_tables + 1
    /\ UNCHANGED summary_printed
    /\ SummaryFrame

\* _factor_summary_printed = True, and the return to line 160
SummarySetFlag(p) ==
    /\ fut[p] = "printed"
    /\ fut' = [fut EXCEPT ![p] = "finished"]
    /\ summary_printed' = TRUE
    /\ UNCHANGED summary_tables
    /\ SummaryFrame

NextSummary ==
    \/ \E p \in Callers : SummaryCheck(p)
    \/ \E p \in Callers : SummaryPrint(p)
    \/ \E p \in Callers : SummarySetFlag(p)

SpecSummary == InitSummary /\ [][NextSummary]_vars

Next ==
    \/ \E list \in StockLists :
         \E mw \in {1, DefaultMaxWorkers} :
           StartParallel(list, mw)
    \/ \E p \in Positions : WorkerStart(p)
    \/ \E p \in Positions : \E beh \in Behaviours : WorkerFinish(p, beh)
    \/ \E p \in Positions : \E pr \in PrintOutcomes : Collect(p, pr)
    \/ \E pr \in PrintOutcomes : FinishParallel(pr)
    \/ \E list \in StockLists : StartSerial(list)
    \/ \E p \in Positions : \E beh \in Behaviours : SerialStep(p, beh)
    \/ FinishSerial
    \/ RetryStart
    \/ \E drv \in {"parallel", "serial"} : ListingRaises(drv)

Spec == Init /\ [][Next]_vars

\* The pool runs every submitted call on one of its threads, the calls
\* return (the provider answers or raises), and the main thread goes on with
\* its loop and with the statements after it.
Fairness ==
    /\ WF_vars(\E p \in Positions : WorkerStart(p))
    /\ WF_vars(\E p \in Positions : \E beh \in Behaviours : WorkerFinish(p, beh))
    /\ WF_vars(\E p \in Positions : \E pr \in PrintOutcomes : Collect(p, pr))
    /\ WF_vars(\E pr \in PrintOutcomes : FinishParallel(pr))

SpecFair == Init /\ [][Next]_vars /\ Fairness

\* ================================================================ claims
FailedCodes == {failed_stocks[i].stock_code : i \in DOMAIN failed_stocks}
LedgerCodes == {ledger[i].stock_code : i \in DOMAIN ledger}
StartLedgerCodes == {ledger_at_start[i].stock_code : i \in DOMAIN ledger_at_start}
RecordsOf(c) == {i \in DOMAIN failed_stocks : failed_stocks[i].stock_code = c}
UniqueAt(p) ==
    \A q \in Positions :
        q # p => stock_list[q].converted_code # stock_list[p].converted_code
DistinctCodes == \A p \in Positions : UniqueAt(p)
ParallelDone == mode = "parallel" /\ pc = "done"
SameFile(a, unit) ==
    a.stock_code = unit.converted_code /\ a.stock_name = unit.stock_name

\* C1: when the parallel batch finishes (also with N = 0), every unit was
\* collected, success_count + len(failed_stocks) = N and failed_count =
\* len(failed_stocks), for every worker count and completion order.
C1_Completeness ==
    (mode = "parallel" /\ pc \in {"done", "returned"}) =>
        /\ collected = Positions
        /\ success_count + Len(failed_stocks) = Len(stock_list)
        /\ failed_count = Len(failed_stocks)

C1_Witness ==
    /\ ParallelDone
    /\ Len(stock_list) >= 2
    /\ max_workers > 1
    /\ failed_count >= 2

\* C2: when a unit X raises inside its worker, the parallel batch still
\* collects every unit, and X (its identifier occurring once in the input)
\* has exactly one record in failed_stocks, with a non-empty reason.
C2_BoundaryContainment ==
    ParallelDone =>
        \A p \in Positions :
            behaviour[p].kind = "raise" =>
                /\ collected = Positions
                /\ success_count + failed_count = Len(stock_list)
                /\ RecordsOf(stock_list[p].converted_code) # {}
                /\ UniqueAt(p) =>
                     Cardinality(RecordsOf(stock_list[p].converted_code)) = 1
                /\ \A i \in RecordsOf(stock_list[p].converted_code) :
                     Len(failed_stocks[i].error) > 0

C2_Witness ==
    /\ ParallelDone
    /\ \E p, q \in Positions :
         /\ behaviour[p].kind = "raise"
         /\ behaviour[q].kind = "ok"
         /\ UniqueAt(p)
         /\ Cardinality(RecordsOf(stock_list[p].converted_code)) = 1

\* the run with one worker that collects the units in submission order
RECURSIVE ReferenceRun(_)
ReferenceRun(n) ==
    IF n = 0 THEN [success |-> 0, failed |-> 0, ids |-> {}]
    ELSE LET r == ReferenceRun(n - 1)
             o == CollectOutcome(generate_factors_for_stock(behaviour[n]),
                                 behaviour[n].io)
         IN IF o.kind = "success"
            THEN [r EXCEPT !.success = @ + 1]
            ELSE [r EXCEPT !.failed = @ + 1,
                           !.ids = @ \cup {stock_list[n].converted_code}]

\* C3: for fixed per-unit outcomes the counts and the set of failed
\* identifiers of a finished parallel batch are those of the in-order
\* one-worker run, whatever max_workers (1, 4, N) and the completion order.
C3_NoConcurrencyDuplication ==
    ParallelDone =>
        LET r == ReferenceRun(Len(stock_list)) IN
            /\ success_count = r.success
            /\ failed_count = r.failed
            /\ FailedCodes = r.ids

C3_Witness ==
    /\ ParallelDone
    /\ max_workers = DefaultMaxWorkers
    /\ Len(stock_list) = 2
    /\ DistinctCodes
    /\ Len(failed_stocks) = 2
    /\ failed_stocks[1].stock_code = stock_list[2].converted_code

\* C4: a ledger write leaves exactly the written failure set: after a run
\* that wrote its failures the ledger holds one line per failed identifier
\* of that run and no line of the ledger it replaced.
C4_LedgerReplace ==
    (pc = "done" /\ failed_stocks # << >>) =>
        /\ LedgerCodes = FailedCodes
        /\ Len(ledger) = Cardinality(FailedCodes)

C4_Witness ==
    /\ pc = "done"
    /\ failed_stocks # << >>
    /\ StartLedgerCodes \ FailedCodes # {}
    /\ LedgerCodes = FailedCodes

\* C5: after retry_failed_stocks has ended the ledger holds exactly the
\* units that failed in this retry; when none failed the ledger is empty and
\* every unit the ledger held is counted as a success.
C5_RetryClosure ==
    (mode = "retry" /\ Ended) =>
        /\ LedgerCodes = FailedCodes
        /\ FailedCodes = {} => success_count = Len(ledger_at_start)

\* C6: a fresh parallel batch resets the ledger before it collects any unit,
\* and when it has ended the ledger holds exactly the failures of this run.
C6_StaleLedgerIsolation ==
    mode = "parallel" =>
        /\ pc = "collecting" => ledger = << >>
        /\ pc \in {"done", "returned"} => LedgerCodes = FailedCodes

C8_ProcessorNeverRaises ==
    \A p \in Positions :
        fut[p] = "finished" =>
            /\ result[p].tag = "tuple"
            /\ behaviour[p].kind = "raise" =>
                 /\ result[p].fst = NoneVal
                 /\ result[p].snd.tag = "str"
                 /\ Len(result[p].snd.s) > 0
                 /\ SubSeq(result[p].snd.s, 3, Len(result[p].snd.s))
                      = ReplaceNewline(behaviour[p].msg)

C8_Witness ==
    \E p \in Positions :
        /\ fut[p] = "finished"
        /\ behaviour[p] = [kind |-> "raise", msg |-> << >>, io |-> "ok"]
        /\ result[p].tag = "tuple"

\* C9: in every driver, a unit whose compute succeeded and whose artifact
\* write raised is in the failed list, is not counted as a success, and the
\* run goes on (the driver is not left by the exception).
C9_WriteFailureIsFailure ==
    \A p \in collected :
        (behaviour[p].kind = "ok"
         /\ UnitSteps(result[p], behaviour[p].io).kind = "raise") =>
            /\ stock_list[p].converted_code \in FailedCodes
            /\ success_count + failed_count = Cardinality(collected)
            /\ pc # "raised"

ConventionExchanges == {"SZ", "SH", "BJ"}
OfConvention(f) ==
    /\ Len(f) = 10
    /\ f[1] \in Digits6 /\ f[2] = "." /\ f[3] \in ConventionExchanges
    /\ f[4] = "-" /\ f[6] = "-" /\ f[7] = FixedLabel /\ f[8] = "-"
    /\ f[9] \in Dates8 /\ f[10] = ".csv"
C11_SkipMalformedNames ==
    (pc = "listed" /\ limit = NoLimit) =>
        LET conv == SelectSeq(input_dir, OfConvention) IN
        /\ Len(stock_list) = Len(conv)
        /\ \A i \in 1..Len(conv) :
            /\ stock_list[i].original_code = <<conv[i][1], conv[i][3]>>
            /\ stock_list[i].stock_name = conv[i][5]
            /\ stock_list[i].date = conv[i][9]

\* C12 (ledger read is total and tolerant): the read returns a list in
\* every case, the empty list when the file does not exist or is empty, and
\* otherwise one unit for each well-formed line, in the order of the file,
\* whatever malformed lines stand between them. A line counts as well formed
\* here as soon as it can be decoded and has an identifier and a name field.
WellFormedLine(line) ==
    /\ \A k \in 1..Len(line) : line[k] # Undecodable
    /\ Len(Split(Strip(line), << >>)) >= 2
C12_LedgerReadTolerant ==
    pc = "read_done" =>
        LET good == SelectSeq(ledger_file.lines, WellFormedLine) IN
        /\ Len(stock_list) = Len(good)
        /\ \A i \in 1..Len(good) :
            /\ stock_list[i].converted_code = <<Strip(good[i])[1]>>
            /\ stock_list[i].stock_name = <<Strip(good[i])[3]>>

\* C13 (retry on an empty ledger is a no-op): a retry started on an empty
\* ledger returns normally, having processed no unit and written nothing.
C13_RetryEmptyNoop ==
    (mode = "retry" /\ Ended /\ ledger_at_start = << >>) =>
        /\ pc = "returned"
        /\ collected = {}
        /\ ledger = << >>
        /\ ledger_writes = 0

\* a driver is entered and left at once by the exception of the listing
SetupErrorStep ==
    /\ runs' = runs + 1
    /\ mode' \in {"parallel", "serial"}
    /\ pc' = "raised"

C15_OutputResetAsymmetry ==
    [][/\ (runs' = runs + 1 /\ mode' = "parallel" /\ pc' = "collecting") =>
            /\ outdir' = {}
            /\ \A p \in DOMAIN fut' : fut'[p] = "pending"
       /\ (runs' = runs + 1 /\ mode' = "retry") =>
            /\ outdir \subseteq outdir'
            /\ \A a \in outdir' \ outdir :
                 \E p \in collected' : SameFile(a, stock_list'[p])]_vars

\* a retry has run on an output directory holding artifacts
C15_Witness ==
    /\ mode = "retry"
    /\ Ended
    /\ outdir # {}

\* C16 (only a configuration error can terminate a run): a driver is never
\* left by an exception once it has taken up a unit.
C16_OnlyConfigErrorTerminates == pc = "raised" => collected = {}

\* C17 (ledger uniqueness): the ledger never holds two records of one
\* identifier; when a finished parallel batch had the same identifier at
\* two positions of its list, both were collected and recorded as failures
\* of their own, and the ledger holds for it the one line of the last of
\* these records.
LastRecordOf(c) ==
    failed_stocks[CHOOSE i \in 1..Len(failed_stocks) :
        /\ failed_stocks[i].stock_code = c
        /\ \A j \in (i + 1)..Len(failed_stocks) :
             failed_stocks[j].stock_code # c]
C18_RetryScopeAndOrder ==
    (mode = "retry" /\ Ended) =>
        /\ success_count + failed_count = Len(ledger_at_start)
        /\ Cardinality(collected) = Len(ledger_at_start)
        /\ Len(stock_list) = Len(ledger_at_start)
        /\ \A i \in 1..Len(stock_list) :
             stock_list[i].converted_code = ledger_at_start[i].stock_code

\* C19 (outcome effects are exclusive and exhaustive): every iteration of
\* the collecting loop either adds one to success_count and appends no
\* failure record, or appends exactly one failure record and leaves
\* success_count, whether or not an exception leaves the iteration.
CollectStep == pc = "collecting" /\ collected' # collected
WriteStep == ledger' # ledger \/ ledger_writes' > ledger_writes
WorkerStep == pc = "collecting" /\ fut' # fut /\ runs' = runs

ReachesToCsv(v) == v.tag \notin {"raised", "None"}

\* the coordinating thread runs the write statement for a unit it collects
MainThreadWrites ==
    /\ CollectStep
    /\ \E p \in collected' \ collected : ReachesToCsv(result[p])

C23_RetryPacing ==
    (mode = "retry" /\ Ended /\ Len(ledger_at_start) > 1) =>
        sleeps >= Len(ledger_at_start) - 1

\* C24 (report emission is purely observational): once a parallel batch is
\* over with every unit collected and some unit failed, its failures are in
\* the ledger, whether or not a progress line or the summary raised.
C24_ReportObservational ==
    (mode = "parallel" /\ Ended /\ Len(stock_list) > 0
     /\ collected = Positions /\ failed_stocks # << >>) =>
        ledger = save_failed_stocks(ledger_at_start, failed_stocks)

\* the per-unit function reported a failure: it returned (None, reason)
ReportsFailure(v) ==
    v.tag = "tuple" /\ v.fst.tag = "None" /\ v.snd.tag = "str"

\* C25 (failure reason fidelity): when the per-unit function returned
\* (None, r) for a unit the parallel batch has collected, every failure
\* record of that unit carries r as its error.
C25_ReasonFidelity ==
    mode = "parallel" =>
        \A p \in collected :
            (UniqueAt(p) /\ ReportsFailure(result[p])) =>
                \A i \in RecordsOf(stock_list[p].converted_code) :
                    failed_stocks[i].error = result[p].snd.s

NoNewline(s) == \A k \in 1..Len(s) : s[k] # NL

LedgerFormLine(line) ==
    /\ Len(line) >= 7
    /\ line[1] \notin {"|", " ", Undecodable}
    /\ line[2] = "|"
    /\ line[3] \notin {"|", " ", Undecodable}
    /\ line[4] = "|"
    /\ \E k \in 6..(Len(line) - 1) : line[k] = "|"
    /\ line[Len(line)] \notin {"|", " "}
    /\ \A k \in 1..Len(line) : line[k] # Undecodable

EmptyInputStep ==
    /\ runs' = runs + 1
    /\ mode' = "parallel"
    /\ pc' # "raised"
    /\ stock_list' = << >>

\* C29 (empty input leaves everything unchanged): a parallel batch on an
\* input without units returns at once; no artifact is deleted, no future
\* is submitted and the ledger is neither written nor emptied.
C29_EmptyInputUnchanged ==
    [][EmptyInputStep =>
        /\ pc' = "returned"
        /\ outdir' = outdir
        /\ ledger' = ledger
        /\ ledger_writes' = 0
        /\ fut' = << >>
        /\ collected' = {}]_vars

\* a parallel batch has returned on an empty list, the old artifacts in
\* place
C29_Witness ==
    /\ mode = "parallel"
    /\ pc = "returned"
    /\ stock_list = << >>
    /\ outdir # {}
    /\ ledger = ledger_at_start

\* C28 (batch termination): with every call of the pool returning, a
\* parallel batch that has submitted its units comes to the end of the
\* driver, all units collected, the summary printed and the ledger step
\* taken.
C28_BatchTerminates ==
    (mode = "parallel" /\ pc = "collecting") ~>
        (mode = "parallel" /\ pc = "done" /\ collected = Positions)

\* what does hold: the collecting loop is always left, by its end or by an
\* exception of the main thread
BatchLeavesLoop ==
    (mode = "parallel" /\ pc = "collecting") ~> (pc \in {"done", "raised"})

\* what does hold: a call that has not returned keeps no other unit from
\* being started while a thread of the pool is free
HungUnitBlocksNoOther ==
    (pc = "collecting"
     /\ Cardinality({q \in Positions : fut[q] = "running"}) < max_workers) =>
        \A p \in Positions :
            (fut[p] = "pending" /\ \A q \in 1..(p - 1) : fut[q] # "pending")
                => ENABLED WorkerStart(p)

\* C30 (print-once guard): however the threads of a batch interleave inside
\* print_factor_summary_once, the factor summary table is printed at most
\* once while the flag is not reset, and a call that starts after a table
\* was printed prints nothing.
C30_PrintOnce == summary_tables <= 1

====
